---- MODULE Spec2Model ----
(***************************************************************************)
(* Appointment scheduling, conflict detection, slot generation,            *)
(* completion with stock consumption, the no-show sweep, the reminder jobs *)
(* and the stock handlers of the clinic backend (AppointmentController,    *)
(* validators/appointment.ts, CronScheduler, ProductController,            *)
(* StockMovementController, PurchaseController).                           *)
(*                                                                         *)
(* Time is an integer number of minutes counted from a Sunday 00:00 in the *)
(* server's local time zone, so that getDay/getHours/getMinutes of the     *)
(* JavaScript Date API become arithmetic.  A handler that awaits the       *)
(* database between a read and a write is a process with one action per    *)
(* database round trip; other handlers may run between its steps.          *)
(***************************************************************************)
EXTENDS Integers, Sequences, FiniteSets, TLC

\* ---------------------------------------------------------------- bounds
\* handler invocations explored in one behaviour
MaxOps == 2

\* length of the list handed to validateTimeConflict
MaxExisting == 2

\* ------------------------------------------------------- Date arithmetic
MinutesPerDay == 1440

getDay(t) == (t \div MinutesPerDay) % 7

getHours(t) == (t % MinutesPerDay) \div 60

getMinutes(t) == t % 60

LocalMidnight(t) == t - (t % MinutesPerDay)

\* Date.prototype.setHours(h, m, 0, 0) on a copy of t
setHours(t, h, m) == LocalMidnight(t) + 60 * h + m

\* ------------------------------------------------------------- constants
PROGRAMADA == "PROGRAMADA"
CONFIRMADA == "CONFIRMADA"
EN_CURSO == "EN_CURSO"
COMPLETADA == "COMPLETADA"
CANCELADA == "CANCELADA"
NO_ASISTIO == "NO_ASISTIO"

AppointmentStatus == {PROGRAMADA, CONFIRMADA, EN_CURSO, COMPLETADA, CANCELADA, NO_ASISTIO}

\* an absent Date (undefined) and an absent id (null)
NoTime == -1
NoId == 0

\* an optional string is the empty set (undefined / null) or a singleton
\* holding the string, a sequence of tokens; the empty string is << >>
NoString == {}

Truthy(s) == s # {} /\ s # {<< >>}

\* --------------------------------------------------------- the database
\* request intervals <<startTime, endTime>>: Monday 10:00-11:00, Monday
\* 10:30-11:30 (overlaps the first), Monday 11:00-12:00 (touches the first),
\* Monday 10:00-10:10 (ten minutes), Sunday 23:00 to Monday 10:30 (starts on
\* a Sunday, crosses midnight), and one with endTime before startTime
IntervalInputs == { <<2040, 2100>>, <<2070, 2130>>, <<2100, 2160>>,
                    <<2040, 2050>>, <<1380, 2070>>, <<2100, 2040>> }

\* the clock: Sunday 00:00, Monday 10:45
NowPoints == {0, 2085}

Practitioners == {"u1", "u2"}

Callers == { [id |-> "u1", role |-> "MEDICO"],
             [id |-> "u2", role |-> "SECRETARIA"],
             [id |-> "u3", role |-> "VIEWER"] }

Patients == {"p1"}

\* patient.createdById
PatientCreatedBy == [p \in Patients |-> "u3"]

Treatments == {"t1"}

Products == {"prodA", "prodB", "prodC"}

TreatmentDuration == [t \in Treatments |-> 60]

\* treatment.requiredProducts: the rows of TreatmentProduct, unique per
\* (treatmentId, productId), in the order the query returns them
\* t2 is a stored treatment with no TreatmentProduct row; only appointments
\* stored at the start refer to it
ConsultationTreatments == {"t2"}

RequiredProducts ==
    [t \in Treatments \cup ConsultationTreatments |->
        IF t \in Treatments
        THEN << [productId |-> "prodA", quantity |-> 2],
                [productId |-> "prodB", quantity |-> 1] >>
        ELSE << >>]

InitialStock == [p \in Products |-> 10]

VARIABLES now, ops, appointments, products, stockMovements, medicalRecords,
          patientTreatments, extCalls, resp, cr, up, cn, cp, ns, call, reminders,
          purchases, sk

dbVars == <<appointments, products, stockMovements, medicalRecords, patientTreatments>>

procVars == <<cr, up, cn, cp, ns>>

stockVars == <<purchases, sk>>

vars == <<now, ops, appointments, products, stockMovements, medicalRecords,
          patientTreatments, extCalls, resp, cr, up, cn, cp, ns, call, reminders,
          purchases, sk>>

ApptIds == 1..Len(appointments)

\* an id no row has (404)
UnknownId == Len(appointments) + 1

\* overlap of the half-open intervals [s1, e1) and [s2, e2), as written in
\* every query of the controller: startTime < e  AND  endTime > s
Overlaps(s1, e1, s2, e2) == s1 < e2 /\ e1 > s2

\* the conflict lookup without its status filter: cancelled rows block too
ConflictingAppointmentsAnyStatus(userId, startTime, endTime, excludeId) ==
    { i \in ApptIds :
        /\ i # excludeId
        /\ appointments[i].userId = userId
        /\ appointments[i].startTime < endTime
        /\ appointments[i].endTime > startTime }

\* prisma.appointment.findFirst of createAppointment / updateAppointment:
\* the rows of practitioner userId, not CANCELADA, other than excludeId,
\* overlapping [startTime, endTime)
ConflictingAppointments(userId, startTime, endTime, excludeId) ==
    { i \in ApptIds :
        /\ i # excludeId
        /\ appointments[i].userId = userId
        /\ appointments[i].status # CANCELADA
        /\ appointments[i].startTime < endTime
        /\ appointments[i].endTime > startTime }

\* the where clause shared by updateAppointment and cancelAppointment: a
\* SECRETARIA sees the appointments she attends or whose patient she created
VisibleTo(caller, i) ==
    \/ caller.role # "SECRETARIA"
    \/ appointments[i].userId = caller.id
    \/ PatientCreatedBy[appointments[i].patientId] = caller.id

\* a handler is entered while the exploration budget lasts
Enter == ops < MaxOps /\ ops' = ops + 1

\* ---------------------------------------------------- external services
\* googleCalendar.createEvent: an event id, null when the calendar is not
\* available, or an exception
CalendarOutcomes == {"ok", "null", "throw"}

Call(api, id) == [api |-> api, id |-> id]

\* res.status(code).json(...): the response sent by the step that led to
\* the state, with the appointment id it carries (the created, updated or
\* conflicting one)
Response(op, code, id) ==
    [op |-> op, code |-> code, id |-> id, userId |-> "", startTime |-> NoTime,
     endTime |-> NoTime, queryDate |-> NoTime, slots |-> {}, failed |-> "",
     thrown |-> {}]

\* a step that sends no response
NoResponse == Response("none", 0, NoId)

\* notifications.send...: delivered, or an exception
NotificationOutcomes == {"ok", "throw"}

\* the collaborators whose call threw into the handler's inner try blocks
Thrown(calendarThrew, notification) ==
    (IF calendarThrew THEN {"calendar"} ELSE {})
    \cup (IF notification = "throw" THEN {"notification"} ELSE {})

\* inner catch blocks that log and rethrow: the outer catch answers 500
AfterCollaboratorsRethrow(code, thrown) == IF thrown = {} THEN code ELSE 500

\* catch (googleError) / catch (notificationError): logged only, the handler
\* goes on to its success response
AfterCollaborators(code, thrown) == code

\* a direct call of a validator: its arguments and, once it returned, its result
NoCall == [fn |-> "none"]

\* ------------------------------------------------- validators/appointment
workingStart == 8
workingEnd == 18
\* a minimum of 10 minutes
MinDurationTen == 15 - 5

MinDuration == 15
MaxDuration == 240
SlotGrid == 15

Valid == [isValid |-> TRUE, message |-> "ok"]

Invalid(message) == [isValid |-> FALSE, message |-> message]

\* validateWorkingHours: the checks in program order, the first failing one
\* decides the message
validateWorkingHours(startTime, endTime) ==
    LET dayOfWeek == getDay(startTime)
        startHourOfDay == getHours(startTime)
        endHourOfDay == getHours(endTime)
        startMinute == getMinutes(startTime)
        endMinute == getMinutes(endTime)
        durationMinutes == endTime - startTime
    IN  IF dayOfWeek = 0 THEN Invalid("domingo")
        ELSE IF startHourOfDay < workingStart
                \/ (startHourOfDay = workingStart /\ startMinute < 0)
             THEN Invalid("despues de las 8:00")
        ELSE IF endHourOfDay > workingEnd
                \/ (endHourOfDay = workingEnd /\ endMinute > 0)
             THEN Invalid("antes de las 18:00")
        ELSE IF durationMinutes < MinDuration THEN Invalid("duracion minima")
        ELSE IF durationMinutes > MaxDuration THEN Invalid("duracion maxima")
        ELSE IF startMinute % SlotGrid # 0 \/ endMinute % SlotGrid # 0
             THEN Invalid("intervalos de 15 minutos")
        ELSE Valid

\* the overlap test of validateTimeConflict's loop body
EntryOverlapsInclusive(newStart, newEnd, entry) ==
    newStart <= entry.endTime /\ newEnd >= entry.startTime

EntryOverlaps(newStart, newEnd, entry) ==
    newStart < entry.endTime /\ newEnd > entry.startTime

\* validateTimeConflict: the scan of existingAppointments from position k,
\* skipping the entry whose id is excludeId (when one is given)
RECURSIVE ScanConflict(_, _, _, _, _)
ScanConflict(newStart, newEnd, existing, excludeId, k) ==
    IF k > Len(existing)
    THEN [hasConflict |-> FALSE, conflictingAppointment |-> NoId]
    ELSE IF excludeId # NoId /\ existing[k].id = excludeId
    THEN ScanConflict(newStart, newEnd, existing, excludeId, k + 1)
    ELSE IF EntryOverlaps(newStart, newEnd, existing[k])
    THEN [hasConflict |-> TRUE, conflictingAppointment |-> existing[k].id]
    ELSE ScanConflict(newStart, newEnd, existing, excludeId, k + 1)

validateTimeConflict(newStart, newEnd, existing, excludeId) ==
    ScanConflict(newStart, newEnd, existing, excludeId, 1)

\* ------------------------------------------------------ createAppointment
CreateProcs == {1, 2}

NotesInputs == {NoString, {<<"n1">>}}

NoReq == [patientId |-> "p0", treatmentId |-> "t0", userId |-> "u1",
          startTime |-> NoTime, endTime |-> NoTime]

IdleCreate == [pc |-> "idle", req |-> NoReq, apptId |-> NoId]

\* validateAppointment: startTime in the future, endTime after startTime
validateAppointment(startTime, endTime) == startTime > now /\ endTime > startTime

\* the handler up to and including the conflict lookup (findFirst): the
\* permission check, the input validation and the two existence checks
\* answer at once; the lookup decides between 409 and going on to insert.
\* Each field of the request is drawn where the handler first reads it.
CreateLookup(c) ==
    /\ cr[c].pc = "idle"
    /\ Enter
    /\ \E caller \in Callers :
        LET reject(code, id) == /\ resp' = Response("create", code, id)
                                /\ cr' = cr
        IN  IF caller.role = "VIEWER" THEN reject(403, NoId)
            ELSE \E iv \in IntervalInputs :
              IF ~validateAppointment(iv[1], iv[2]) THEN reject(400, NoId)
              ELSE \E patientId \in Patients \cup {"p0"} :
                IF patientId \notin Patients THEN reject(404, NoId)
                ELSE \E treatmentId \in Treatments \cup {"t0"} :
                  IF treatmentId \notin Treatments THEN reject(404, NoId)
                  ELSE \E userId \in Practitioners :
                    LET conflicts == ConflictingAppointments(userId, iv[1], iv[2], NoId)
                        req == [patientId |-> patientId, treatmentId |-> treatmentId,
                                userId |-> userId, startTime |-> iv[1], endTime |-> iv[2]]
                    IN  IF conflicts # {}
                        THEN \* findFirst without orderBy: any matching row
                             \E i \in conflicts :
                               /\ resp' = [Response("create", 409, i) EXCEPT
                                              !.userId = userId, !.startTime = iv[1],
                                              !.endTime = iv[2]]
                               /\ cr' = cr
                        ELSE /\ cr' = [cr EXCEPT ![c] = [IdleCreate EXCEPT !.pc = "insert", !.req = req]]
                             /\ resp' = NoResponse
    /\ UNCHANGED <<stockVars, reminders, call, now, dbVars, extCalls, up, cn, cp, ns>>

NewAppointment(req, notes) ==
    [patientId |-> req.patientId, treatmentId |-> req.treatmentId,
     userId |-> req.userId, startTime |-> req.startTime, endTime |-> req.endTime,
     notes |-> notes, status |-> PROGRAMADA, googleEventId |-> NoId]

\* prisma.appointment.create
CreateInsert(c) ==
    /\ cr[c].pc = "insert"
    /\ \E notes \in NotesInputs :
         appointments' = Append(appointments, NewAppointment(cr[c].req, notes))
    /\ cr' = [cr EXCEPT ![c] = [IdleCreate EXCEPT !.pc = "sync", !.apptId = Len(appointments) + 1]]
    /\ resp' = NoResponse
    /\ UNCHANGED <<stockVars, reminders, call, now, ops, products, stockMovements, medicalRecords,
                   patientTreatments, extCalls, up, cn, cp, ns>>

\* after the insert: the calendar event (when googleSync), the write of its
\* id, the confirmation notification, and the 201 response.  Exceptions of
\* both collaborators are caught and logged.
CreateSync(c) ==
    /\ cr[c].pc = "sync"
    /\ LET id == cr[c].apptId IN
       /\ \E googleSync \in BOOLEAN, outcome \in CalendarOutcomes,
             notification \in NotificationOutcomes :
            LET thrown == Thrown(googleSync /\ outcome = "throw", notification) IN
            /\ appointments' =
                 IF googleSync /\ outcome # "throw"
                 THEN [appointments EXCEPT ![id].googleEventId =
                           IF outcome = "ok" THEN id ELSE NoId]
                 ELSE appointments
            /\ extCalls' = extCalls
                 \cup (IF googleSync THEN {Call("createEvent", id)} ELSE {})
                 \cup {Call("sendAppointmentConfirmation", id)}
            /\ resp' = [Response("create", AfterCollaborators(201, thrown), id)
                           EXCEPT !.thrown = thrown]
    /\ cr' = [cr EXCEPT ![c] = IdleCreate]
    /\ UNCHANGED <<stockVars, reminders, call, now, ops, products, stockMovements, medicalRecords,
                   patientTreatments, up, cn, cp, ns>>

\* ------------------------------------------------------ updateAppointment
NoStatus == "none"

\* request bodies: a reschedule to each interval, a new startTime alone, a
\* new endTime alone, each status alone, new notes alone (the empty string
\* included), and a status sent along with new times
UpdateInputs ==
    { [startTime |-> iv[1], endTime |-> iv[2], status |-> NoStatus, notes |-> NoString] :
          iv \in IntervalInputs }
    \cup { [startTime |-> 2070, endTime |-> NoTime, status |-> NoStatus, notes |-> NoString],
           [startTime |-> NoTime, endTime |-> 2050, status |-> NoStatus, notes |-> NoString],
           [startTime |-> 2070, endTime |-> 2130, status |-> CONFIRMADA, notes |-> NoString],
           [startTime |-> NoTime, endTime |-> NoTime, status |-> NoStatus, notes |-> {<< >>}],
           [startTime |-> NoTime, endTime |-> NoTime, status |-> NoStatus, notes |-> {<<"n2">>}] }
    \cup { [startTime |-> NoTime, endTime |-> NoTime, status |-> st, notes |-> NoString] :
          st \in AppointmentStatus }

NoBody == [startTime |-> NoTime, endTime |-> NoTime, status |-> NoStatus, notes |-> NoString]

IdleUpdate == [pc |-> "idle", id |-> NoId, body |-> NoBody, googleEventId |-> NoId]

\* validateAppointmentUpdate: endTime after startTime when both are sent
validateAppointmentUpdate(body) ==
    (body.startTime # NoTime /\ body.endTime # NoTime) => body.endTime > body.startTime

\* the handler up to the conflict lookup, which runs only when both times
\* are sent and excludes the appointment itself
UpdateLookup ==
    /\ up.pc = "idle"
    /\ Enter
    /\ \E caller \in Callers :
        LET reject(code, id) == /\ resp' = Response("update", code, id)
                                /\ up' = up
        IN  IF caller.role = "VIEWER" THEN reject(403, NoId)
            ELSE \E body \in UpdateInputs :
              IF ~validateAppointmentUpdate(body) THEN reject(400, NoId)
              ELSE \E id \in ApptIds \cup {UnknownId} :
                IF id \notin ApptIds \/ ~VisibleTo(caller, id) THEN reject(404, NoId)
                ELSE
                  LET conflicts ==
                        IF body.startTime # NoTime /\ body.endTime # NoTime
                        THEN ConflictingAppointments(appointments[id].userId,
                                                     body.startTime, body.endTime, id)
                        ELSE {}
                  IN  IF conflicts # {}
                      THEN \E i \in conflicts : reject(409, i)
                      ELSE /\ up' = [pc |-> "write", id |-> id, body |-> body,
                                     googleEventId |-> appointments[id].googleEventId]
                           /\ resp' = NoResponse
    /\ UNCHANGED <<stockVars, reminders, call, now, dbVars, extCalls, cr, cn, cp, ns>>

\* the data of prisma.appointment.update: only the fields that were sent
ApplyUpdate(a, body) ==
    [a EXCEPT !.startTime = IF body.startTime # NoTime THEN body.startTime ELSE @,
              !.endTime = IF body.endTime # NoTime THEN body.endTime ELSE @,
              !.status = IF body.status # NoStatus THEN body.status ELSE @,
              !.notes = IF body.notes # NoString THEN body.notes ELSE @]

UpdateWrite ==
    /\ up.pc = "write"
    /\ appointments' = [appointments EXCEPT ![up.id] = ApplyUpdate(@, up.body)]
    /\ up' = [up EXCEPT !.pc = "sync"]
    /\ resp' = NoResponse
    /\ UNCHANGED <<stockVars, reminders, call, now, ops, products, stockMovements, medicalRecords,
                   patientTreatments, extCalls, cr, cn, cp, ns>>

\* the notification chosen from the request body
UpdateNotification(body) ==
    IF body.status = CONFIRMADA THEN {"sendAppointmentConfirmed"}
    ELSE IF body.status = CANCELADA THEN {"sendAppointmentCancelled"}
    ELSE IF body.startTime # NoTime \/ body.endTime # NoTime THEN {"sendAppointmentRescheduled"}
    ELSE {}

\* after the write: updateEvent when the appointment had a calendar event,
\* the notification, the 200 response; collaborator exceptions are caught
UpdateSync ==
    /\ up.pc = "sync"
    /\ \E googleSync \in BOOLEAN, outcome \in {"ok", "throw"},
          notification \in NotificationOutcomes :
         LET synced == googleSync /\ up.googleEventId # NoId
             notified == UpdateNotification(up.body) # {}
             thrown == Thrown(synced /\ outcome = "throw",
                              IF notified THEN notification ELSE "ok")
         IN  /\ extCalls' = extCalls
                  \cup (IF synced THEN {Call("updateEvent", up.id)} ELSE {})
                  \cup {Call(api, up.id) : api \in UpdateNotification(up.body)}
             /\ resp' = [Response("update", AfterCollaborators(200, thrown), up.id)
                            EXCEPT !.thrown = thrown]
    /\ up' = IdleUpdate
    /\ UNCHANGED <<stockVars, reminders, call, now, ops, dbVars, cr, cn, cp, ns>>

\* ------------------------------------------------------ cancelAppointment
ReasonInputs == {NoString, {<< >>}, {<<"r1">>}}

IdleCancel == [pc |-> "idle", id |-> NoId, reason |-> NoString,
               notes |-> NoString, googleEventId |-> NoId]

\* `${appointment.notes}\n\nCancelada: ${reason || 'Sin motivo especificado'}`
CancelledNotes(notes, reason) ==
    LET why == IF Truthy(reason) THEN CHOOSE r \in reason : TRUE
               ELSE <<"Sin motivo especificado">>
    IN  IF Truthy(notes)
        THEN {(CHOOSE n \in notes : TRUE) \o <<"\n\nCancelada: ">> \o why}
        ELSE {<<"Cancelada: ">> \o why}

\* a guard that lets a cancelled appointment through
AlreadyCancelledNever(appointment) == FALSE

\* if (appointment.status === AppointmentStatus.CANCELADA): 'La cita ya
\* esta cancelada'
AlreadyCancelled(appointment) == appointment.status = CANCELADA

CancelLookup ==
    /\ cn.pc = "idle"
    /\ Enter
    /\ \E caller \in Callers :
        LET reject(code, id) == /\ resp' = Response("cancel", code, id)
                                /\ cn' = cn
        IN  IF caller.role = "VIEWER" THEN reject(403, NoId)
            ELSE \E id \in ApptIds \cup {UnknownId} :
              IF id \notin ApptIds \/ ~VisibleTo(caller, id) THEN reject(404, NoId)
              ELSE IF AlreadyCancelled(appointments[id]) THEN reject(400, id)
              ELSE \E reason \in ReasonInputs :
                   /\ cn' = [pc |-> "write", id |-> id, reason |-> reason,
                             notes |-> appointments[id].notes,
                             googleEventId |-> appointments[id].googleEventId]
                   /\ resp' = NoResponse
    /\ UNCHANGED <<stockVars, reminders, call, now, dbVars, extCalls, cr, up, cp, ns>>

\* a cancellation that calls the calendar first and leaves the row alone
CancelWriteEventFirst ==
    /\ cn.pc = "write"
    /\ extCalls' = extCalls \cup {Call("cancelEvent", cn.id)}
    /\ cn' = [cn EXCEPT !.pc = "sync"]
    /\ resp' = NoResponse
    /\ UNCHANGED <<stockVars, reminders, call, now, ops, dbVars, cr, up, cp, ns>>

\* prisma.appointment.update: status CANCELADA and the reason appended to
\* the notes
CancelWrite ==
    /\ cn.pc = "write"
    /\ appointments' = [appointments EXCEPT
            ![cn.id].status = CANCELADA,
            ![cn.id].notes = CancelledNotes(cn.notes, cn.reason)]
    /\ cn' = [cn EXCEPT !.pc = "sync"]
    /\ resp' = NoResponse
    /\ UNCHANGED <<stockVars, reminders, call, now, ops, products, stockMovements, medicalRecords,
                   patientTreatments, extCalls, cr, up, cp, ns>>

CancelSync ==
    /\ cn.pc = "sync"
    /\ extCalls' = extCalls
          \cup (IF cn.googleEventId # NoId THEN {Call("cancelEvent", cn.id)} ELSE {})
          \cup {Call("sendAppointmentCancelled", cn.id)}
    /\ \E outcome \in {"ok", "throw"}, notification \in NotificationOutcomes :
         LET thrown == Thrown(cn.googleEventId # NoId /\ outcome = "throw", notification)
         IN  resp' = [Response("cancel", AfterCollaborators(200, thrown), cn.id)
                        EXCEPT !.thrown = thrown]
    /\ cn' = IdleCancel
    /\ UNCHANGED <<stockVars, reminders, call, now, ops, dbVars, cr, up, cp, ns>>

\* ------------------------------------------------- markNoShowAppointments
GraceMinutes == 30

IdleNoShow == [pc |-> "idle", missed |-> {}]

\* the candidates without the status filter
MissedAppointmentsAnyStatus ==
    { i \in ApptIds : appointments[i].startTime < now - GraceMinutes }

\* findMany: PROGRAMADA or CONFIRMADA and startTime < now - 30 minutes
MissedAppointments ==
    { i \in ApptIds :
        /\ appointments[i].status \in {PROGRAMADA, CONFIRMADA}
        /\ appointments[i].startTime < now - GraceMinutes }

NoShowRead ==
    /\ ns.pc = "idle"
    /\ Enter
    /\ ns' = [pc |-> "write", missed |-> MissedAppointments]
    /\ resp' = NoResponse
    /\ UNCHANGED <<stockVars, reminders, call, now, dbVars, extCalls, cr, up, cn, cp>>

\* updateMany where id in (the ids read before): no status condition
NoShowWrite ==
    /\ ns.pc = "write"
    /\ appointments' = [i \in ApptIds |->
            IF i \in ns.missed THEN [appointments[i] EXCEPT !.status = NO_ASISTIO]
            ELSE appointments[i]]
    /\ ns' = IdleNoShow
    /\ resp' = NoResponse
    /\ UNCHANGED <<stockVars, reminders, call, now, ops, products, stockMovements, medicalRecords,
                   patientTreatments, extCalls, cr, up, cn, cp>>

\* --------------------------------------------------- CronScheduler reminders
\* notifications.sendAppointmentReminder(appointment, kind): one entry of
\* the log for every call
Reminder(i, kind) == [id |-> i, kind |-> kind, at |-> now]

\* the calls of the loop over the rows a findMany returned, in id order
RECURSIVE Dispatch(_, _)
Dispatch(selected, kind) ==
    IF selected = {} THEN << >>
    ELSE LET i == CHOOSE j \in selected : \A k \in selected : j <= k
         IN  <<Reminder(i, kind)>> \o Dispatch(selected \ {i}, kind)

\* sendDailyReminders: PROGRAMADA or CONFIRMADA rows that start on the next
\* local calendar day
TomorrowAppointments ==
    LET tomorrow == LocalMidnight(now) + MinutesPerDay
        dayAfterTomorrow == tomorrow + MinutesPerDay
    IN  { i \in ApptIds :
            /\ appointments[i].startTime >= tomorrow
            /\ appointments[i].startTime < dayAfterTomorrow
            /\ appointments[i].status \in {PROGRAMADA, CONFIRMADA} }

sendDailyReminders == Dispatch(TomorrowAppointments, "24h")

\* send2HourReminders: PROGRAMADA or CONFIRMADA rows with
\* now + 2 h <= startTime < now + 2.25 h
UpcomingAppointments ==
    { i \in ApptIds :
        /\ appointments[i].startTime >= now + 120
        /\ appointments[i].startTime < now + 135
        /\ appointments[i].status \in {PROGRAMADA, CONFIRMADA} }

send2HourReminders == Dispatch(UpcomingAppointments, "2h")

ReminderJobs == {"daily-reminders", "hourly-reminders"}

\* runJobManually(name): the job's task, run at once
RunJobManually ==
    /\ Enter
    /\ \E name \in ReminderJobs :
          reminders' = reminders \o
              (IF name = "daily-reminders" THEN sendDailyReminders
               ELSE send2HourReminders)
    /\ resp' = NoResponse
    /\ UNCHANGED <<stockVars, call, now, dbVars, extCalls, procVars>>

\* the schedules of initialize: '0 9 * * *' and '*/30 * * * *'
DailyFiring(t) == getHours(t) = 9 /\ getMinutes(t) = 0

HalfHourFiring(t) == getMinutes(t) % 30 = 0

\* the cron minutes of one morning: Monday 07:00 to 11:00
CronMinutes == { MinutesPerDay + 60 * h + m : h \in 7 .. 10, m \in {0, 30} }
                    \cup {MinutesPerDay + 60 * 11}

\* the clock reaches the next cron minute and the jobs scheduled for it run
CronFiring ==
    /\ \E t \in CronMinutes :
          /\ t > now
          /\ \A u \in CronMinutes : u > now => t <= u
          /\ now' = t
    /\ UNCHANGED <<stockVars, call, ops, dbVars, extCalls, procVars>>
    /\ HalfHourFiring(now')
    /\ reminders' = reminders
                        \o (IF DailyFiring(now') THEN sendDailyReminders' ELSE << >>)
                        \o send2HourReminders'
    /\ resp' = NoResponse

\* -------------------------------------------------------- getAvailability
DefaultDuration == 60
startHour == 9
endHour == 18
slotInterval == 30

\* the instants the date parameter may denote: Monday 00:00 local time,
\* Monday 10:30 (a date-time, or a date-only string read as UTC midnight on
\* a server whose zone is not UTC), Sunday 00:00
QueryDates == {1440, 2070, 0}

\* findMany: the practitioner's rows, not CANCELADA, whose startTime lies in
\* [queryDate, queryDate + 1 day)
ExistingAppointments(userId, queryDate) ==
    { i \in ApptIds :
        /\ appointments[i].userId = userId
        /\ appointments[i].startTime >= queryDate
        /\ appointments[i].startTime < queryDate + MinutesPerDay
        /\ appointments[i].status # CANCELADA }

\* the loop over hour = 9..17 and minute = 0, 30: a slot is pushed when it
\* overlaps none of the loaded rows and slotEnd.getHours() <= 18
AvailableSlots(userId, queryDate, treatmentDuration) ==
    LET existing == ExistingAppointments(userId, queryDate)
    IN  { slot \in { <<setHours(queryDate, hour, minute),
                       setHours(queryDate, hour, minute) + treatmentDuration>> :
                         hour \in startHour..(endHour - 1),
                         minute \in {m \in 0..59 : m % slotInterval = 0} } :
            /\ ~\E i \in existing :
                    /\ slot[1] < appointments[i].endTime
                    /\ slot[2] > appointments[i].startTime
            /\ getHours(slot[2]) <= endHour }

GetAvailability ==
    /\ Enter
    /\ \E userId \in Practitioners, queryDate \in QueryDates,
          treatmentId \in {"none", "t0"} \cup Treatments :
         LET treatmentDuration == IF treatmentId \in Treatments
                                  THEN TreatmentDuration[treatmentId]
                                  ELSE DefaultDuration
         IN  resp' = [Response("availability", 200, NoId) EXCEPT
                         !.userId = userId, !.queryDate = queryDate,
                         !.slots = AvailableSlots(userId, queryDate, treatmentDuration)]
    /\ UNCHANGED <<stockVars, reminders, call, now, dbVars, extCalls, procVars>>

\* ---------------------------------------------------- completeAppointment
CompleteProcs == {1, 2}

CompleteNotesInputs == {NoString, {<< >>}, {<<"n3">>}}

TreatmentNotesInputs == {NoString, {<<"tn">>}}

\* the writes a transaction has made and not yet committed
NoTx == [appointment |-> FALSE, notes |-> NoString, records |-> << >>,
         movements |-> << >>, decrements |-> [p \in Products |-> 0],
         patientTreatment |-> NoId, completedSessions |-> 0, treatmentStatus |-> ""]

IdleComplete == [pc |-> "idle", id |-> NoId, notes |-> NoString, patientId |-> "",
                 treatmentId |-> "", k |-> 0, tx |-> NoTx]

\* the statements of the interactive transaction, in program order
TxStatements == {"appointment.update", "medicalRecord.create", "stockMovement.create",
                 "product.update", "patientTreatment.findFirst",
                 "patientTreatment.update", "commit"}

InTx(p) == cp[p].pc \in TxStatements

\* row locks of the open transactions (PostgreSQL, READ COMMITTED): a row a
\* transaction has updated stays locked until it commits or rolls back, and
\* an UPDATE of a locked row waits
AppointmentLocked(id, p) ==
    \E q \in CompleteProcs \ {p} : InTx(q) /\ cp[q].tx.appointment /\ cp[q].id = id

ProductLocked(prod, p) ==
    \E q \in CompleteProcs \ {p} : InTx(q) /\ cp[q].tx.decrements[prod] > 0

PatientTreatmentLocked(pt, p) ==
    \E q \in CompleteProcs \ {p} :
        InTx(q) /\ cp[q].pc = "commit" /\ cp[q].tx.patientTreatment = pt

\* the handler up to the start of the transaction: role check, findUnique,
\* and the only status check there is
CompleteRead(p) ==
    /\ cp[p].pc = "idle"
    /\ Enter
    /\ \E caller \in Callers :
        LET reject(code) == /\ resp' = Response("complete", code, NoId)
                            /\ cp' = cp
        IN  IF caller.role \notin {"MEDICO", "ADMIN"} THEN reject(403)
            ELSE \E id \in ApptIds \cup {UnknownId} :
              IF id \notin ApptIds THEN reject(404)
              ELSE IF appointments[id].status = COMPLETADA THEN reject(400)
              ELSE /\ cp' = [cp EXCEPT ![p] =
                        [IdleComplete EXCEPT !.pc = "appointment.update", !.id = id,
                                             !.notes = appointments[id].notes,
                                             !.patientId = appointments[id].patientId,
                                             !.treatmentId = appointments[id].treatmentId]]
                   /\ resp' = NoResponse
    /\ UNCHANGED <<stockVars, reminders, call, now, dbVars, extCalls, cr, up, cn, ns>>

\* the statement after the product loop position k
AfterProduct(p, k) ==
    IF k < Len(RequiredProducts[cp[p].treatmentId])
    THEN "stockMovement.create" ELSE "patientTreatment.findFirst"

\* tx.appointment.update: status COMPLETADA, notes: notes || appointment.notes
TxAppointmentUpdate(p) ==
    /\ cp[p].pc = "appointment.update"
    /\ ~AppointmentLocked(cp[p].id, p)
    /\ \E notes \in CompleteNotesInputs :
         cp' = [cp EXCEPT ![p].pc = "medicalRecord.create",
                          ![p].tx.appointment = TRUE,
                          ![p].tx.notes = IF Truthy(notes) THEN notes ELSE cp[p].notes]
    /\ resp' = NoResponse
    /\ UNCHANGED <<stockVars, reminders, call, now, ops, dbVars, extCalls, cr, up, cn, ns>>

\* tx.medicalRecord.create, only with treatmentNotes
TxMedicalRecordCreate(p) ==
    /\ cp[p].pc = "medicalRecord.create"
    /\ \E treatmentNotes \in TreatmentNotesInputs :
         cp' = [cp EXCEPT ![p].pc = AfterProduct(p, 0),
                          ![p].tx.records =
                              IF Truthy(treatmentNotes)
                              THEN <<[patientId |-> cp[p].patientId,
                                      description |-> treatmentNotes]>>
                              ELSE << >>]
    /\ resp' = NoResponse
    /\ UNCHANGED <<stockVars, reminders, call, now, ops, dbVars, extCalls, cr, up, cn, ns>>

\* the movement of one required product
TreatmentMovement(requiredProduct, appointmentId) ==
    [productId |-> requiredProduct.productId, type |-> "USO_TRATAMIENTO",
     quantity |-> 0 - requiredProduct.quantity, reference |-> appointmentId]

\* tx.stockMovement.create for the next required product
TxStockMovementCreate(p) ==
    /\ cp[p].pc = "stockMovement.create"
    /\ LET requiredProduct == RequiredProducts[cp[p].treatmentId][cp[p].k + 1]
       IN  cp' = [cp EXCEPT ![p].pc = "product.update",
                            ![p].tx.movements =
                                Append(@, TreatmentMovement(requiredProduct, cp[p].id))]
    /\ resp' = NoResponse
    /\ UNCHANGED <<stockVars, reminders, call, now, ops, dbVars, extCalls, cr, up, cn, ns>>

\* a decrement of one unit per product, whatever the treatment requires
StockDecrementOne(requiredProduct) == 1

\* the amount tx.product.update takes from currentStock
StockDecrement(requiredProduct) == requiredProduct.quantity

\* tx.product.update: currentStock decrement by the per-session quantity
TxProductUpdate(p) ==
    /\ cp[p].pc = "product.update"
    /\ LET requiredProduct == RequiredProducts[cp[p].treatmentId][cp[p].k + 1]
       IN  /\ ~ProductLocked(requiredProduct.productId, p)
           /\ cp' = [cp EXCEPT ![p].pc = AfterProduct(p, cp[p].k + 1),
                               ![p].k = @ + 1,
                               ![p].tx.decrements[requiredProduct.productId] =
                                   @ + StockDecrement(requiredProduct)]
    /\ resp' = NoResponse
    /\ UNCHANGED <<stockVars, reminders, call, now, ops, dbVars, extCalls, cr, up, cn, ns>>

\* tx.patientTreatment.findFirst: the patient's ACTIVO course of the treatment
ActiveTreatments(patientId, treatmentId) ==
    { i \in 1..Len(patientTreatments) :
        /\ patientTreatments[i].patientId = patientId
        /\ patientTreatments[i].treatmentId = treatmentId
        /\ patientTreatments[i].status = "ACTIVO" }

TxPatientTreatmentFind(p) ==
    /\ cp[p].pc = "patientTreatment.findFirst"
    /\ LET found == ActiveTreatments(cp[p].patientId, cp[p].treatmentId)
       IN  IF found = {}
           THEN cp' = [cp EXCEPT ![p].pc = "commit"]
           ELSE \E i \in found :
                  LET newCompletedSessions == patientTreatments[i].completedSessions + 1
                      shouldComplete == newCompletedSessions >= patientTreatments[i].sessions
                  IN  cp' = [cp EXCEPT ![p].pc = "patientTreatment.update",
                                       ![p].tx.patientTreatment = i,
                                       ![p].tx.completedSessions = newCompletedSessions,
                                       ![p].tx.treatmentStatus =
                                           IF shouldComplete THEN "COMPLETADO" ELSE "ACTIVO"]
    /\ resp' = NoResponse
    /\ UNCHANGED <<stockVars, reminders, call, now, ops, dbVars, extCalls, cr, up, cn, ns>>

TxPatientTreatmentUpdate(p) ==
    /\ cp[p].pc = "patientTreatment.update"
    /\ ~PatientTreatmentLocked(cp[p].tx.patientTreatment, p)
    /\ cp' = [cp EXCEPT ![p].pc = "commit"]
    /\ resp' = NoResponse
    /\ UNCHANGED <<stockVars, reminders, call, now, ops, dbVars, extCalls, cr, up, cn, ns>>

\* the database after the writes of transaction tx on appointment id
Committed(id, tx) ==
    [appointments |->
        IF tx.appointment
        THEN [appointments EXCEPT ![id].status = COMPLETADA, ![id].notes = tx.notes]
        ELSE appointments,
     medicalRecords |-> medicalRecords \o tx.records,
     stockMovements |-> stockMovements \o tx.movements,
     products |-> [prod \in Products |-> products[prod] - tx.decrements[prod]],
     patientTreatments |->
        IF tx.patientTreatment # NoId
        THEN [patientTreatments EXCEPT
                 ![tx.patientTreatment].completedSessions = tx.completedSessions,
                 ![tx.patientTreatment].status = tx.treatmentStatus]
        ELSE patientTreatments]

\* a rollback that keeps the status update, as if the appointment had been
\* written through the global client instead of the transaction client
RolledBackExceptAppointment(id, tx) ==
    [appointments |-> Committed(id, tx).appointments,
     medicalRecords |-> medicalRecords,
     stockMovements |-> stockMovements, products |-> products,
     patientTreatments |-> patientTreatments]

\* the database after transaction tx on appointment id was rolled back:
\* none of its writes
RolledBack(id, tx) ==
    [appointments |-> appointments, medicalRecords |-> medicalRecords,
     stockMovements |-> stockMovements, products |-> products,
     patientTreatments |-> patientTreatments]

SetDatabase(db) ==
    /\ appointments' = db.appointments
    /\ medicalRecords' = db.medicalRecords
    /\ stockMovements' = db.stockMovements
    /\ products' = db.products
    /\ patientTreatments' = db.patientTreatments

\* the transaction callback returns: commit, res.json(result)
TxCommit(p) ==
    /\ cp[p].pc = "commit"
    /\ SetDatabase(Committed(cp[p].id, cp[p].tx))
    /\ resp' = Response("complete", 200, cp[p].id)
    /\ cp' = [cp EXCEPT ![p] = IdleComplete]
    /\ UNCHANGED <<stockVars, reminders, call, now, ops, extCalls, cr, up, cn, ns>>

\* a statement of the transaction (or the commit) throws: prisma rolls the
\* transaction back and the handler's catch answers 500
TxFail(p) ==
    /\ cp[p].pc \in TxStatements
    /\ SetDatabase(RolledBack(cp[p].id, cp[p].tx))
    /\ resp' = [Response("complete", 500, cp[p].id) EXCEPT !.failed = cp[p].pc]
    /\ cp' = [cp EXCEPT ![p] = IdleComplete]
    /\ UNCHANGED <<stockVars, reminders, call, now, ops, extCalls, cr, up, cn, ns>>

\* ------------------------------------------ the stock-changing handlers
StockProcs == {1, 2}

\* an id that no product has
UnknownProduct == "prod0"

\* the purchases on record: one PENDIENTE purchase of 5 prodA and 3 prodC;
\* its items are identified by their position
SeedPurchases ==
    << [status |-> "PENDIENTE",
        items |-> << [productId |-> "prodA", quantity |-> 5],
                     [productId |-> "prodC", quantity |-> 3] >>] >>

PurchaseIds == DOMAIN purchases

\* the operations of a batch $transaction([...]) not yet run: the stock
\* changes and movements in the order of the array, and the purchase to
\* mark RECIBIDA (none for the other handlers)
IdleStock == [pc |-> "idle", op |-> "none", writes |-> << >>, purchaseId |-> NoId]

StockWrite(productId, delta, type, quantity, reference) ==
    [productId |-> productId, delta |-> delta,
     movement |-> [productId |-> productId, type |-> type, quantity |-> quantity,
                   reference |-> reference]]

BatchOf(op, writes, purchaseId) ==
    [pc |-> "tx", op |-> op, writes |-> writes, purchaseId |-> purchaseId]

\* an outflow recorded with the sign of an inflow
OutflowUnsigned(quantity) == quantity

\* quantity: -quantity, negative because it leaves the stock
Outflow(quantity) == 0 - quantity

\* adjustStock: findUnique, 404, then the batch of the increment by
\* Number(quantity) and the AJUSTE movement
AdjustStock(s) ==
    /\ sk[s].pc = "idle"
    /\ Enter
    /\ \E id \in {"prodA", UnknownProduct}, quantity \in {-3, 5} :
         IF id \notin Products
         THEN /\ resp' = Response("adjustStock", 404, NoId)
              /\ sk' = sk
         ELSE /\ sk' = [sk EXCEPT ![s] = BatchOf("adjustStock",
                            <<StockWrite(id, quantity, "AJUSTE", quantity, NoId)>>, NoId)]
              /\ resp' = NoResponse
    /\ UNCHANGED <<purchases, reminders, call, now, dbVars, extCalls, procVars>>

\* useInTreatment: findUnique, 404, 400 when currentStock < quantity, then
\* the batch of the decrement and the USO_TRATAMIENTO movement
UseInTreatment(s) ==
    /\ sk[s].pc = "idle"
    /\ Enter
    /\ \E productId \in {"prodA", UnknownProduct}, quantity \in {8, 20},
          appointmentId \in {NoId} \cup ApptIds :
         IF productId \notin Products
         THEN /\ resp' = Response("useInTreatment", 404, NoId)
              /\ sk' = sk
         ELSE IF products[productId] < quantity
         THEN /\ resp' = Response("useInTreatment", 400, NoId)
              /\ sk' = sk
         ELSE /\ sk' = [sk EXCEPT ![s] = BatchOf("useInTreatment",
                            <<StockWrite(productId, 0 - quantity, "USO_TRATAMIENTO",
                                         Outflow(quantity), appointmentId)>>, NoId)]
              /\ resp' = NoResponse
    /\ UNCHANGED <<purchases, reminders, call, now, dbVars, extCalls, procVars>>

\* reportExpiry: no lookup and no stock check, the batch of the decrement
\* and the VENCIMIENTO movement
ReportExpiry(s) ==
    /\ sk[s].pc = "idle"
    /\ Enter
    /\ \E productId \in {"prodA", UnknownProduct}, quantity \in {2, 20} :
         sk' = [sk EXCEPT ![s] = BatchOf("reportExpiry",
                    <<StockWrite(productId, 0 - quantity, "VENCIMIENTO",
                                 Outflow(quantity), NoId)>>, NoId)]
    /\ resp' = NoResponse
    /\ UNCHANGED <<purchases, reminders, call, now, dbVars, extCalls, procVars>>

\* req.body.receivedItems: the first item in full; both items, the first in
\* part; the first item and an item the purchase does not have; the first
\* item twice
ReceivedItemsInputs ==
    { << [itemId |-> 1, quantityReceived |-> 5] >>,
      << [itemId |-> 1, quantityReceived |-> 3], [itemId |-> 2, quantityReceived |-> 3] >>,
      << [itemId |-> 1, quantityReceived |-> 5], [itemId |-> 9, quantityReceived |-> 1] >>,
      << [itemId |-> 1, quantityReceived |-> 5], [itemId |-> 1, quantityReceived |-> 5] >> }

\* the loop over receivedItems: items the purchase does not have are
\* skipped, every other one gives an increment and a COMPRA movement
RECURSIVE ReceivedWrites(_, _, _)
ReceivedWrites(items, receivedItems, purchaseId) ==
    IF receivedItems = << >> THEN << >>
    ELSE LET receivedItem == Head(receivedItems)
             rest == ReceivedWrites(items, Tail(receivedItems), purchaseId)
         IN  IF receivedItem.itemId \notin DOMAIN items THEN rest
             ELSE <<StockWrite(items[receivedItem.itemId].productId,
                               receivedItem.quantityReceived, "COMPRA",
                               receivedItem.quantityReceived, purchaseId)>> \o rest

\* receivePurchase: findUnique, 404, 400 unless PENDIENTE, then the batch of
\* the increments, the movements and the purchase update
ReceivePurchase(s) ==
    /\ sk[s].pc = "idle"
    /\ Enter
    /\ \E id \in PurchaseIds \cup {UnknownId} :
         IF id \notin PurchaseIds
         THEN /\ resp' = Response("receivePurchase", 404, NoId)
              /\ sk' = sk
         ELSE IF purchases[id].status # "PENDIENTE"
         THEN /\ resp' = Response("receivePurchase", 400, NoId)
              /\ sk' = sk
         ELSE \E receivedItems \in ReceivedItemsInputs :
              /\ sk' = [sk EXCEPT ![s] = BatchOf("receivePurchase",
                            ReceivedWrites(purchases[id].items, receivedItems, id), id)]
              /\ resp' = NoResponse
    /\ UNCHANGED <<purchases, reminders, call, now, dbVars, extCalls, procVars>>

RECURSIVE StockDelta(_, _)
StockDelta(writes, prod) ==
    IF writes = << >> THEN 0
    ELSE (IF Head(writes).productId = prod THEN Head(writes).delta ELSE 0)
         + StockDelta(Tail(writes), prod)

\* the batch runs and commits: every increment and decrement, every
\* movement, and the purchase update; an update of a product row waits for
\* the open transaction that holds the row
StockBatchCommit(s) ==
    /\ sk[s].pc = "tx"
    /\ \A k \in DOMAIN sk[s].writes :
          /\ sk[s].writes[k].productId \in Products
          /\ ~ProductLocked(sk[s].writes[k].productId, 0)
    /\ products' = [prod \in Products |-> products[prod] + StockDelta(sk[s].writes, prod)]
    /\ stockMovements' = stockMovements
          \o [k \in DOMAIN sk[s].writes |-> sk[s].writes[k].movement]
    /\ purchases' = IF sk[s].purchaseId # NoId
                    THEN [purchases EXCEPT ![sk[s].purchaseId].status = "RECIBIDA"]
                    ELSE purchases
    /\ resp' = Response(sk[s].op, 200, NoId)
    /\ sk' = [sk EXCEPT ![s] = IdleStock]
    /\ UNCHANGED <<reminders, call, now, ops, appointments, medicalRecords,
                   patientTreatments, extCalls, procVars>>

\* an operation of the batch throws (a product that does not exist, a
\* value the column rejects, the connection): the batch is rolled back and
\* the catch answers 500
StockBatchFail(s) ==
    /\ sk[s].pc = "tx"
    /\ resp' = [Response(sk[s].op, 500, NoId) EXCEPT !.failed = "batch"]
    /\ sk' = [sk EXCEPT ![s] = IdleStock]
    /\ UNCHANGED <<purchases, reminders, call, now, ops, dbVars, extCalls, procVars>>

Tick ==
    /\ \E t \in NowPoints : t > now /\ now' = t
    /\ resp' = NoResponse
    /\ UNCHANGED <<stockVars, reminders, call, ops, dbVars, extCalls, procVars>>

Init ==
    /\ now = 0
    /\ ops = 0
    /\ appointments = << >>
    /\ products = InitialStock
    /\ stockMovements = << >>
    /\ medicalRecords = << >>
    /\ patientTreatments = << >>
    /\ extCalls = {}
    /\ resp = Response("none", 0, NoId)
    /\ cr = [c \in CreateProcs |-> IdleCreate]
    /\ up = IdleUpdate
    /\ cn = IdleCancel
    /\ cp = [p \in CompleteProcs |-> IdleComplete]
    /\ ns = IdleNoShow
    /\ call = NoCall
    /\ reminders = << >>
    /\ purchases = SeedPurchases
    /\ sk = [s \in StockProcs |-> IdleStock]

Next ==
    \/ \E c \in CreateProcs : CreateLookup(c)
    \/ \E c \in CreateProcs : CreateInsert(c)
    \/ \E c \in CreateProcs : CreateSync(c)
    \/ UpdateLookup
    \/ UpdateWrite
    \/ UpdateSync
    \/ CancelLookup
    \/ CancelWrite
    \/ CancelSync
    \/ NoShowRead
    \/ NoShowWrite
    \/ GetAvailability
    \/ Tick

Spec == Init /\ [][Next]_vars

\* ------------------------------------------------------------------------
\* createAppointment against a database that already holds appointments
\* ------------------------------------------------------------------------
\* rows that earlier requests left behind: each was inserted by
\* createAppointment from a request that passed validateAppointment and was
\* later given its status by updateAppointment, cancelAppointment or the
\* no-show sweep
SeedStatuses == {PROGRAMADA, CANCELADA, COMPLETADA}

SeedAppointments ==
    { [NewAppointment([patientId |-> "p1", treatmentId |-> "t1", userId |-> u,
                       startTime |-> iv[1], endTime |-> iv[2]], NoString)
          EXCEPT !.status = st] :
        u \in Practitioners, iv \in {x \in IntervalInputs : x[2] > x[1]},
        st \in SeedStatuses }

SeedDatabases == {<< >>} \cup { <<a>> : a \in SeedAppointments }

InitCreate ==
    /\ now \in NowPoints
    /\ ops = 0
    /\ appointments \in SeedDatabases
    /\ products = InitialStock
    /\ stockMovements = << >>
    /\ medicalRecords = << >>
    /\ patientTreatments = << >>
    /\ extCalls = {}
    /\ resp = Response("none", 0, NoId)
    /\ cr = [c \in CreateProcs |-> IdleCreate]
    /\ up = IdleUpdate
    /\ cn = IdleCancel
    /\ cp = [p \in CompleteProcs |-> IdleComplete]
    /\ ns = IdleNoShow
    /\ call = NoCall
    /\ reminders = << >>
    /\ purchases = SeedPurchases
    /\ sk = [s \in StockProcs |-> IdleStock]

NextCreate ==
    \/ CreateLookup(1)
    \/ CreateInsert(1)
    \/ CreateSync(1)

SpecCreate == InitCreate /\ [][NextCreate]_vars
\* ------------------------------------------------------------------------
\* completeAppointment against a database that holds one appointment
\* ------------------------------------------------------------------------
CompleteSeedAppointments ==
    { [NewAppointment([patientId |-> "p1", treatmentId |-> "t1", userId |-> "u1",
                       startTime |-> 2040, endTime |-> 2100], notes)
          EXCEPT !.status = st] :
        notes \in NotesInputs, st \in AppointmentStatus }

\* the patient's course of the treatment: none, or one of 2 sessions
SeedPatientTreatments ==
    {<< >>} \cup
    { <<[patientId |-> "p1", treatmentId |-> "t1", status |-> st,
         sessions |-> 2, completedSessions |-> n]>> :
        st \in {"ACTIVO"}, n \in {0, 1} }

InitComplete ==
    /\ now = 2085
    /\ ops = 0
    /\ appointments \in { <<a>> : a \in CompleteSeedAppointments }
    /\ products = InitialStock
    /\ stockMovements = << >>
    /\ medicalRecords = << >>
    /\ patientTreatments \in SeedPatientTreatments
    /\ extCalls = {}
    /\ resp = Response("none", 0, NoId)
    /\ cr = [c \in CreateProcs |-> IdleCreate]
    /\ up = IdleUpdate
    /\ cn = IdleCancel
    /\ cp = [p \in CompleteProcs |-> IdleComplete]
    /\ ns = IdleNoShow
    /\ call = NoCall
    /\ reminders = << >>
    /\ purchases = SeedPurchases
    /\ sk = [s \in StockProcs |-> IdleStock]

NextComplete ==
    \/ \E p \in CompleteProcs : CompleteRead(p)
    \/ \E p \in CompleteProcs : TxAppointmentUpdate(p)
    \/ \E p \in CompleteProcs : TxMedicalRecordCreate(p)
    \/ \E p \in CompleteProcs : TxStockMovementCreate(p)
    \/ \E p \in CompleteProcs : TxProductUpdate(p)
    \/ \E p \in CompleteProcs : TxPatientTreatmentFind(p)
    \/ \E p \in CompleteProcs : TxPatientTreatmentUpdate(p)
    \/ \E p \in CompleteProcs : TxCommit(p)
    \/ \E p \in CompleteProcs : TxFail(p)

SpecComplete == InitComplete /\ [][NextComplete]_vars
\* ------------------------------------------------------------------------
\* getAvailability after createAppointment, on an empty database
\* ------------------------------------------------------------------------
NextAvail ==
    \/ CreateLookup(1)
    \/ CreateInsert(1)
    \/ CreateSync(1)
    \/ GetAvailability

SpecAvail == Init /\ [][NextAvail]_vars

\* ------------------------------------------------------------------------
\* getAvailability after updateAppointment, on a database that holds one
\* appointment of practitioner u1, Monday 11:00-12:00
\* ------------------------------------------------------------------------
OldInterval == <<2100, 2160>>

ReschedSeedAppointments ==
    { [NewAppointment([patientId |-> "p1", treatmentId |-> "t1", userId |-> "u1",
                       startTime |-> OldInterval[1], endTime |-> OldInterval[2]], NoString)
          EXCEPT !.status = st, !.googleEventId = g] :
        st \in {PROGRAMADA, CONFIRMADA}, g \in {NoId, 1} }

InitResched ==
    /\ now = 0
    /\ ops = 0
    /\ appointments \in { <<a>> : a \in ReschedSeedAppointments }
    /\ products = InitialStock
    /\ stockMovements = << >>
    /\ medicalRecords = << >>
    /\ patientTreatments = << >>
    /\ extCalls = {}
    /\ resp = Response("none", 0, NoId)
    /\ cr = [c \in CreateProcs |-> IdleCreate]
    /\ up = IdleUpdate
    /\ cn = IdleCancel
    /\ cp = [p \in CompleteProcs |-> IdleComplete]
    /\ ns = IdleNoShow
    /\ call = NoCall
    /\ reminders = << >>
    /\ purchases = SeedPurchases
    /\ sk = [s \in StockProcs |-> IdleStock]

NextResched ==
    \/ UpdateLookup
    \/ UpdateWrite
    \/ UpdateSync
    \/ GetAvailability

SpecResched == InitResched /\ [][NextResched]_vars

\* ------------------------------------------------------------------------
\* validateTimeConflict called directly
\* ------------------------------------------------------------------------
ConflictTimes == 0..3

ConflictIds == 1..3

ConflictEntries ==
    { x \in [id : ConflictIds, startTime : ConflictTimes, endTime : ConflictTimes] :
        x.endTime > x.startTime }

RECURSIVE SeqsUpTo(_, _)
SeqsUpTo(S, n) ==
    IF n = 0 THEN {<< >>}
    ELSE LET shorter == SeqsUpTo(S, n - 1)
         IN  shorter \cup { Append(q, x) : q \in shorter, x \in S }

InitConflict ==
    /\ now = 0
    /\ ops = 0
    /\ appointments = << >>
    /\ products = InitialStock
    /\ stockMovements = << >>
    /\ medicalRecords = << >>
    /\ patientTreatments = << >>
    /\ extCalls = {}
    /\ resp = Response("none", 0, NoId)
    /\ cr = [c \in CreateProcs |-> IdleCreate]
    /\ up = IdleUpdate
    /\ cn = IdleCancel
    /\ cp = [p \in CompleteProcs |-> IdleComplete]
    /\ ns = IdleNoShow
    /\ call \in [fn : {"validateTimeConflict"}, done : {FALSE},
                 newStart : ConflictTimes, newEnd : ConflictTimes,
                 existing : SeqsUpTo(ConflictEntries, MaxExisting),
                 excludeId : {NoId} \cup ConflictIds,
                 result : {[hasConflict |-> FALSE, conflictingAppointment |-> NoId]}]
    /\ reminders = << >>
    /\ purchases = SeedPurchases
    /\ sk = [s \in StockProcs |-> IdleStock]

CallValidateTimeConflict ==
    /\ call.fn = "validateTimeConflict"
    /\ ~call.done
    /\ call' = [call EXCEPT !.done = TRUE,
                            !.result = validateTimeConflict(call.newStart, call.newEnd,
                                                            call.existing, call.excludeId)]
    /\ UNCHANGED <<stockVars, reminders, now, ops, dbVars, extCalls, resp, procVars>>

NextConflict == CallValidateTimeConflict

SpecConflict == InitConflict /\ [][NextConflict]_vars

\* ------------------------------------------- cancellations on their own
\* one stored appointment in any status, with or without notes and calendar
\* event, and cancelAppointment requests only
CancelSeedAppointments ==
    { [userId |-> "u1", startTime |-> 2040, endTime |-> 2100, status |-> st,
       patientId |-> "p1", treatmentId |-> "t1", notes |-> notes,
       googleEventId |-> ev] :
          st \in AppointmentStatus, notes \in NotesInputs, ev \in {NoId, 1} }

InitCancel ==
    /\ now = 0
    /\ ops = 0
    /\ appointments \in {<<a>> : a \in CancelSeedAppointments}
    /\ products = InitialStock
    /\ stockMovements = << >>
    /\ medicalRecords = << >>
    /\ patientTreatments = << >>
    /\ extCalls = {}
    /\ resp = Response("none", 0, NoId)
    /\ cr = [c \in CreateProcs |-> IdleCreate]
    /\ up = IdleUpdate
    /\ cn = IdleCancel
    /\ cp = [p \in CompleteProcs |-> IdleComplete]
    /\ ns = IdleNoShow
    /\ call = NoCall
    /\ reminders = << >>
    /\ purchases = SeedPurchases
    /\ sk = [s \in StockProcs |-> IdleStock]

NextCancel ==
    \/ CancelLookup
    \/ CancelWrite
    \/ CancelSync

SpecCancel == InitCancel /\ [][NextCancel]_vars

\* --------------------------------- the handlers that call collaborators
\* one stored appointment, whose creation the budget counts as one request,
\* then createAppointment, updateAppointment and cancelAppointment requests
InitCollab ==
    /\ now = 0
    /\ ops = 1
    /\ appointments \in { <<a>> : a \in ReschedSeedAppointments }
    /\ products = InitialStock
    /\ stockMovements = << >>
    /\ medicalRecords = << >>
    /\ patientTreatments = << >>
    /\ extCalls = {}
    /\ resp = Response("none", 0, NoId)
    /\ cr = [c \in CreateProcs |-> IdleCreate]
    /\ up = IdleUpdate
    /\ cn = IdleCancel
    /\ cp = [p \in CompleteProcs |-> IdleComplete]
    /\ ns = IdleNoShow
    /\ call = NoCall
    /\ reminders = << >>
    /\ purchases = SeedPurchases
    /\ sk = [s \in StockProcs |-> IdleStock]

NextCollab ==
    \/ CreateLookup(1)
    \/ CreateInsert(1)
    \/ CreateSync(1)
    \/ UpdateLookup
    \/ UpdateWrite
    \/ UpdateSync
    \/ CancelLookup
    \/ CancelWrite
    \/ CancelSync

SpecCollab == InitCollab /\ [][NextCollab]_vars

\* ------------------------------------------ validateWorkingHours alone
\* the instants passed as startTime and endTime: Sunday 10:00; Monday 07:45,
\* 08:00, 10:00, 10:10, 10:15, 12:00, 14:00, 18:00, 18:15 and 22:00; Tuesday
\* 00:00, 01:00 and 09:00; Saturday 22:00 and the Sunday 00:00 after it
PolicyTimes ==
    {600, 1905, 1920, 2040, 2050, 2055, 2160, 2280, 2520, 2535, 2760,
     2880, 2940, 3420, 9960, 10080}

InitPolicy ==
    /\ now = 0
    /\ ops = 0
    /\ appointments = << >>
    /\ products = InitialStock
    /\ stockMovements = << >>
    /\ medicalRecords = << >>
    /\ patientTreatments = << >>
    /\ extCalls = {}
    /\ resp = Response("none", 0, NoId)
    /\ cr = [c \in CreateProcs |-> IdleCreate]
    /\ up = IdleUpdate
    /\ cn = IdleCancel
    /\ cp = [p \in CompleteProcs |-> IdleComplete]
    /\ ns = IdleNoShow
    /\ call \in [fn : {"validateWorkingHours"}, done : {FALSE},
                 startTime : PolicyTimes, endTime : PolicyTimes,
                 result : {Valid}]
    /\ reminders = << >>
    /\ purchases = SeedPurchases
    /\ sk = [s \in StockProcs |-> IdleStock]

CallValidateWorkingHours ==
    /\ call.fn = "validateWorkingHours"
    /\ ~call.done
    /\ call' = [call EXCEPT !.done = TRUE,
                            !.result = validateWorkingHours(call.startTime, call.endTime)]
    /\ UNCHANGED <<stockVars, reminders, now, ops, dbVars, extCalls, resp, procVars>>

NextPolicy == CallValidateWorkingHours

SpecPolicy == InitPolicy /\ [][NextPolicy]_vars

\* ------------------------------ completions of two appointments of a course
\* two CONFIRMADA appointments of patient p1 for the same treatment, and the
\* patient's ACTIVO course of that treatment, 3 sessions, none or one done
ProgressSeedDatabases ==
    { << [NewAppointment([patientId |-> "p1", treatmentId |-> t, userId |-> "u1",
                          startTime |-> 2040, endTime |-> 2100], NoString)
             EXCEPT !.status = CONFIRMADA],
         [NewAppointment([patientId |-> "p1", treatmentId |-> t, userId |-> "u1",
                          startTime |-> 2100, endTime |-> 2160], NoString)
             EXCEPT !.status = CONFIRMADA] >> :
        t \in Treatments \cup ConsultationTreatments }

InitProgress ==
    /\ now = 2085
    /\ ops = 0
    /\ appointments \in ProgressSeedDatabases
    /\ products = InitialStock
    /\ stockMovements = << >>
    /\ medicalRecords = << >>
    /\ patientTreatments \in
          { <<[patientId |-> "p1", treatmentId |-> appointments[1].treatmentId,
               status |-> "ACTIVO", sessions |-> 3, completedSessions |-> n]>> :
              n \in {0, 1} }
    /\ extCalls = {}
    /\ resp = Response("none", 0, NoId)
    /\ cr = [c \in CreateProcs |-> IdleCreate]
    /\ up = IdleUpdate
    /\ cn = IdleCancel
    /\ cp = [p \in CompleteProcs |-> IdleComplete]
    /\ ns = IdleNoShow
    /\ call = NoCall
    /\ reminders = << >>
    /\ purchases = SeedPurchases
    /\ sk = [s \in StockProcs |-> IdleStock]

SpecProgress == InitProgress /\ [][NextComplete]_vars

\* ------------------------------------------------ the no-show sweep alone
\* the clock at the sweep: before every appointment, 45 minutes after the
\* start of the first one (15 minutes before its end), 31 minutes after
\* its end
SweepNowPoints == {0, 2085, 2131}

\* two stored appointments, 10:00-11:00 and 11:00-12:00, none marked yet
SweepSeedDatabases ==
    { << [NewAppointment([patientId |-> "p1", treatmentId |-> "t1", userId |-> "u1",
                          startTime |-> 2040, endTime |-> 2100], NoString)
             EXCEPT !.status = st1, !.googleEventId = 1],
         [NewAppointment([patientId |-> "p1", treatmentId |-> "t1", userId |-> "u1",
                          startTime |-> 2100, endTime |-> 2160], NoString)
             EXCEPT !.status = st2] >> :
        st1 \in AppointmentStatus \ {NO_ASISTIO},
        st2 \in AppointmentStatus \ {NO_ASISTIO} }

InitSweep ==
    /\ now \in SweepNowPoints
    /\ ops = 0
    /\ appointments \in SweepSeedDatabases
    /\ products = InitialStock
    /\ stockMovements = << >>
    /\ medicalRecords = << >>
    /\ patientTreatments = << >>
    /\ extCalls = {}
    /\ resp = Response("none", 0, NoId)
    /\ cr = [c \in CreateProcs |-> IdleCreate]
    /\ up = IdleUpdate
    /\ cn = IdleCancel
    /\ cp = [p \in CompleteProcs |-> IdleComplete]
    /\ ns = IdleNoShow
    /\ call = NoCall
    /\ reminders = << >>
    /\ purchases = SeedPurchases
    /\ sk = [s \in StockProcs |-> IdleStock]

NextSweep ==
    \/ NoShowRead
    \/ NoShowWrite

SpecSweep == InitSweep /\ [][NextSweep]_vars

\* the sweep running while appointments are cancelled
NextSweepRace ==
    \/ NoShowRead
    \/ NoShowWrite
    \/ CancelLookup
    \/ CancelWrite
    \/ CancelSync

SpecSweepRace == InitSweep /\ [][NextSweepRace]_vars

\* ------------------------------------------------ the reminder jobs alone
\* an appointment on Monday starting at 10:00, 10:15, 10:30 or 10:45 and one
\* on Tuesday at 10:00
ReminderSeedDatabases ==
    { << [NewAppointment([patientId |-> "p1", treatmentId |-> "t1", userId |-> "u1",
                          startTime |-> MinutesPerDay + 600 + m,
                          endTime |-> MinutesPerDay + 660 + m], NoString)
             EXCEPT !.status = st1],
         [NewAppointment([patientId |-> "p2", treatmentId |-> "t1", userId |-> "u1",
                          startTime |-> 2 * MinutesPerDay + 600,
                          endTime |-> 2 * MinutesPerDay + 660], NoString)
             EXCEPT !.status = st2] >> :
        m \in {0, 15, 30, 45},
        st1 \in {PROGRAMADA, CONFIRMADA, CANCELADA},
        st2 \in {PROGRAMADA, CONFIRMADA} }

\* Monday 06:45, before the first cron minute of the morning
InitCron ==
    /\ now = MinutesPerDay + 405
    /\ ops = 0
    /\ appointments \in ReminderSeedDatabases
    /\ products = InitialStock
    /\ stockMovements = << >>
    /\ medicalRecords = << >>
    /\ patientTreatments = << >>
    /\ extCalls = {}
    /\ resp = Response("none", 0, NoId)
    /\ cr = [c \in CreateProcs |-> IdleCreate]
    /\ up = IdleUpdate
    /\ cn = IdleCancel
    /\ cp = [p \in CompleteProcs |-> IdleComplete]
    /\ ns = IdleNoShow
    /\ call = NoCall
    /\ reminders = << >>
    /\ purchases = SeedPurchases
    /\ sk = [s \in StockProcs |-> IdleStock]

NextCron == CronFiring

SpecCron == InitCron /\ [][NextCron]_vars

\* the scheduled firings and manual runs of the same jobs
NextReminders ==
    \/ CronFiring
    \/ RunJobManually

SpecReminders == InitCron /\ [][NextReminders]_vars

\* ------------------------------- the stock handlers and completeAppointment
\* one CONFIRMADA appointment for the treatment that needs prodA and prodB,
\* the stock as first recorded and no movement yet; the patient's course of
\* the treatment, if any
InitStock ==
    /\ now = 2085
    /\ ops = 0
    /\ appointments =
          << [NewAppointment([patientId |-> "p1", treatmentId |-> "t1", userId |-> "u1",
                              startTime |-> 2040, endTime |-> 2100], NoString)
                 EXCEPT !.status = CONFIRMADA] >>
    /\ products = InitialStock
    /\ stockMovements = << >>
    /\ medicalRecords = << >>
    /\ patientTreatments \in SeedPatientTreatments
    /\ extCalls = {}
    /\ resp = Response("none", 0, NoId)
    /\ cr = [c \in CreateProcs |-> IdleCreate]
    /\ up = IdleUpdate
    /\ cn = IdleCancel
    /\ cp = [p \in CompleteProcs |-> IdleComplete]
    /\ ns = IdleNoShow
    /\ call = NoCall
    /\ reminders = << >>
    /\ purchases = SeedPurchases
    /\ sk = [s \in StockProcs |-> IdleStock]

NextStock ==
    \/ \E s \in StockProcs : AdjustStock(s)
    \/ \E s \in StockProcs : UseInTreatment(s)
    \/ \E s \in StockProcs : ReportExpiry(s)
    \/ \E s \in StockProcs : ReceivePurchase(s)
    \/ \E s \in StockProcs : StockBatchCommit(s)
    \/ \E s \in StockProcs : StockBatchFail(s)
    \/ NextComplete

SpecStock == InitStock /\ [][NextStock]_vars

\* ========================================================================
\* Properties
\* ========================================================================
Active(i) == appointments[i].status # CANCELADA

SameSlot(i, j) ==
    /\ appointments[i].userId = appointments[j].userId
    /\ appointments[i].startTime = appointments[j].startTime
    /\ appointments[i].endTime = appointments[j].endTime

\* C1: no two appointments of the same practitioner whose status is not
\* CANCELADA have overlapping intervals [startTime, endTime), in every
\* state reachable by create, update, cancel and the no-show sweep
C1_NoDoubleBooking ==
    \A i, j \in ApptIds :
        (i < j /\ appointments[i].userId = appointments[j].userId
               /\ Active(i) /\ Active(j))
        => ~Overlaps(appointments[i].startTime, appointments[i].endTime,
                     appointments[j].startTime, appointments[j].endTime)

\* C2: of two createAppointment requests in flight at the same time for the
\* same practitioner and the same interval, exactly one is persisted (the
\* other is answered 409): the two are never both past their insert
C2_ExactlyOneOfTwoConcurrentCreates ==
    \A c, d \in CreateProcs :
        (c # d /\ cr[c].pc = "sync" /\ cr[d].pc = "sync")
        => ~(SameSlot(cr[c].apptId, cr[d].apptId)
             /\ Active(cr[c].apptId) /\ Active(cr[d].apptId))

\* the step in which createAppointment of process c runs its conflict
\* lookup on a request that passed the permission, validation and existence
\* checks: it answers 409 or goes on to the insert
CreateDecides409(c) ==
    /\ cr[c].pc = "idle" /\ cr'[c].pc = "idle" /\ ops' = ops + 1
    /\ resp'.op = "create" /\ resp'.code = 409

CreateDecidesInsert(c) == cr[c].pc = "idle" /\ cr'[c].pc = "insert"

\* the existing appointments of practitioner userId, not cancelled, that
\* overlap [startTime, endTime)
Blocking(userId, startTime, endTime) ==
    { i \in ApptIds :
        /\ appointments[i].userId = userId
        /\ appointments[i].status \in AppointmentStatus \ {CANCELADA}
        /\ Overlaps(startTime, endTime,
                    appointments[i].startTime, appointments[i].endTime) }

\* C3: a createAppointment request that reaches the conflict lookup is
\* answered 409 exactly when an existing non-cancelled appointment of the same
\* practitioner overlaps the requested interval; the 409 carries the id of
\* such an appointment, changes no row and makes no calendar or
\* notification call; cancelled appointments and other practitioners'
\* appointments never cause it
C3_ConflictRejection ==
    [][\A c \in CreateProcs :
        /\ CreateDecides409(c) =>
              /\ resp'.id \in Blocking(resp'.userId, resp'.startTime, resp'.endTime)
              /\ UNCHANGED <<appointments, products, stockMovements, medicalRecords,
                             patientTreatments, extCalls>>
        /\ CreateDecidesInsert(c) =>
              Blocking(cr'[c].req.userId, cr'[c].req.startTime, cr'[c].req.endTime) = {}
      ]_vars

\* a 409 that names a non-cancelled appointment of the practitioner, while
\* a cancelled appointment of the same practitioner overlapping the same
\* request did not block the create that inserted the named one
C3_Witness ==
    /\ resp.op = "create" /\ resp.code = 409 /\ resp.id \in ApptIds
    /\ Active(resp.id)
    /\ appointments[resp.id].userId = resp.userId
    /\ \E j \in ApptIds :
          /\ j < resp.id
          /\ appointments[j].userId = resp.userId
          /\ appointments[j].status = CANCELADA
          /\ Overlaps(resp.startTime, resp.endTime,
                      appointments[j].startTime, appointments[j].endTime)
          /\ Overlaps(appointments[resp.id].startTime, appointments[resp.id].endTime,
                      appointments[j].startTime, appointments[j].endTime)

\* C4: createAppointment persists no appointment whose interval violates
\* the working-hours policy (a Sunday start, a duration under 15 minutes):
\* every row it inserts passes validateWorkingHours
C4_CreateEnforcesPolicy ==
    [][Len(appointments') > Len(appointments) =>
          validateWorkingHours(appointments'[Len(appointments')].startTime,
                               appointments'[Len(appointments')].endTime).isValid
      ]_vars

\* C5: validateTimeConflict reports a conflict exactly when some entry whose
\* id differs from excludeId satisfies newStart < entry.endTime and
\* newEnd > entry.startTime (touching intervals do not count), and the id
\* it reports is that of the first such entry of the list
ConflictPositions ==
    { k \in 1..Len(call.existing) :
        /\ call.existing[k].id # call.excludeId
        /\ call.newStart < call.existing[k].endTime
        /\ call.newEnd > call.existing[k].startTime }

C5_TimeConflict ==
    (call.fn = "validateTimeConflict" /\ call.done) =>
        /\ call.result.hasConflict <=> ConflictPositions # {}
        /\ call.result.hasConflict =>
              \E k \in ConflictPositions :
                  /\ \A m \in ConflictPositions : k <= m
                  /\ call.result.conflictingAppointment = call.existing[k].id

\* a call whose list holds a touching entry, the excluded entry overlapping,
\* and a later overlapping entry that is reported
C5_Witness ==
    /\ call.fn = "validateTimeConflict" /\ call.done
    /\ call.result.hasConflict
    /\ Len(call.existing) >= 2
    /\ call.existing[1].id = call.excludeId
    /\ EntryOverlaps(call.newStart, call.newEnd, call.existing[1])
    /\ call.result.conflictingAppointment = call.existing[2].id
    /\ call.existing[2].id # call.existing[1].id

\* a getAvailability step: the response is computed from the rows as they
\* are, which the step leaves unchanged
GetAvailabilityStep ==
    /\ ops' = ops + 1 /\ UNCHANGED procVars
    /\ \A c \in CreateProcs : cr[c].pc = "idle"
    /\ up.pc = "idle"
    /\ resp'.op = "availability"

\* the local calendar day on which the slots of a query are generated
QueryDay(queryDate) == LocalMidnight(queryDate)

IntersectsDay(startTime, endTime, day) ==
    startTime < day + MinutesPerDay /\ endTime > day

\* C6: after createAppointment persisted an appointment of practitioner P
\* with interval I, a getAvailability for P on a day that I intersects
\* returns no slot overlapping I (the appointment being neither cancelled
\* nor rescheduled)
C6_CreatedIsOccupied ==
    [][GetAvailabilityStep =>
        \A i \in ApptIds :
            (/\ appointments[i].userId = resp'.userId
             /\ Active(i)
             /\ IntersectsDay(appointments[i].startTime, appointments[i].endTime,
                              QueryDay(resp'.queryDate)))
            => \A slot \in resp'.slots :
                  ~Overlaps(slot[1], slot[2],
                            appointments[i].startTime, appointments[i].endTime)
      ]_vars

\* C7: after a reschedule of the appointment from OldInterval to a disjoint
\* interval New, getAvailability for its practitioner on that day returns
\* no slot overlapping New, and returns every 60-minute candidate of the
\* generation grid that lies inside OldInterval
Rescheduled ==
    /\ appointments[1].startTime < appointments[1].endTime
    /\ <<appointments[1].startTime, appointments[1].endTime>> # OldInterval
    /\ ~Overlaps(appointments[1].startTime, appointments[1].endTime,
                 OldInterval[1], OldInterval[2])
    /\ Active(1)

C7_RescheduleRoundTrip ==
    [][(/\ GetAvailabilityStep
        /\ Rescheduled
        /\ resp'.userId = appointments[1].userId
        /\ QueryDay(resp'.queryDate) = LocalMidnight(OldInterval[1]))
        => /\ \A slot \in resp'.slots :
                 ~Overlaps(slot[1], slot[2],
                           appointments[1].startTime, appointments[1].endTime)
           /\ <<OldInterval[1], OldInterval[1] + DefaultDuration>> \in resp'.slots
      ]_vars

\* C8: when a statement of the completion transaction fails, the appointment
\* keeps its status and notes, no stock changes, no movement and no medical
\* record is added, the treatment progress is unchanged, and the caller
\* gets an error
C8_FailedCompletionAborts ==
    [][\A p \in CompleteProcs :
        (InTx(p) /\ cp'[p].pc = "idle" /\ resp'.failed # "")
        => /\ resp'.code = 500
           /\ appointments' = appointments
           /\ products' = products
           /\ stockMovements' = stockMovements
           /\ medicalRecords' = medicalRecords
           /\ patientTreatments' = patientTreatments
      ]_vars

\* a completion of a CONFIRMADA appointment failed on the stock decrement,
\* after the status update and a movement insert of the same transaction
C8_Witness ==
    /\ resp.op = "complete" /\ resp.code = 500
    /\ resp.failed = "product.update"
    /\ appointments[resp.id].status = CONFIRMADA
    /\ products = InitialStock
    /\ stockMovements = << >>

MovementsOf(id, prod) ==
    { k \in 1..Len(stockMovements) :
        stockMovements[k].reference = id /\ stockMovements[k].productId = prod }

\* C9: every appointment has at most one stock consumption record, and so
\* one stock decrement, per product its treatment requires
C9_AtMostOneConsumption ==
    \A id \in ApptIds, prod \in Products : Cardinality(MovementsOf(id, prod)) <= 1

\* the step in which the transaction of process p commits
CompleteSucceeds(p) ==
    /\ cp[p].pc = "commit" /\ cp'[p].pc = "idle"
    /\ resp'.op = "complete" /\ resp'.code = 200

\* the quantity per session of product prod in treatment t (0: not required)
QuantityPerSession(t, prod) ==
    LET rows == { k \in 1..Len(RequiredProducts[t]) :
                     RequiredProducts[t][k].productId = prod }
    IN  IF rows = {} THEN 0
        ELSE RequiredProducts[t][CHOOSE k \in rows : TRUE].quantity

\* C10: a successful completeAppointment adds, for every product the
\* treatment requires, exactly one USO_TRATAMIENTO movement of minus the
\* per-session quantity that refers to the appointment, lowers that
\* product's stock by that quantity, and leaves every other stock as it was
C10_CompletionConsumesStock ==
    [][\A p \in CompleteProcs :
        CompleteSucceeds(p) =>
          LET t == appointments[cp[p].id].treatmentId
              added == { k \in 1..Len(stockMovements') : k > Len(stockMovements) }
          IN  /\ SubSeq(stockMovements', 1, Len(stockMovements)) = stockMovements
              /\ \A prod \in Products :
                    LET q == QuantityPerSession(t, prod)
                        mine == { k \in added : stockMovements'[k].productId = prod }
                    IN  /\ products'[prod] = products[prod] - q
                        /\ Cardinality(mine) = IF q > 0 THEN 1 ELSE 0
                        /\ \A k \in mine :
                              /\ stockMovements'[k].type = "USO_TRATAMIENTO"
                              /\ stockMovements'[k].quantity = 0 - q
                              /\ stockMovements'[k].reference = cp[p].id
      ]_vars

\* 2 units of prodA required, stock 10: after one completion the stock is 8
\* and there is one movement of -2 for prodA; prodC, not required, keeps 10
C10_Witness ==
    /\ resp.op = "complete" /\ resp.code = 200
    /\ products["prodA"] = 8
    /\ products["prodC"] = 10
    /\ \E k \in 1..Len(stockMovements) :
          /\ stockMovements[k].productId = "prodA"
          /\ stockMovements[k].quantity = -2
          /\ MovementsOf(resp.id, "prodA") = {k}

\* the step in which cancelAppointment answers or goes on to its write
CancelLookupStep == cn.pc = "idle" /\ ops' = ops + 1 /\ resp'.op = "cancel"

\* C11: cancelAppointment on an appointment that is already CANCELADA is
\* answered 400 ("ya esta cancelada"); the answer changes no row, so status
\* and notes stay those of the first cancel, and makes no calendar or
\* notification call; no cancel of a cancelled appointment reaches the write
C11_CancelTwice ==
    [][/\ (CancelLookupStep /\ resp'.code = 400) =>
            /\ appointments[resp'.id].status = CANCELADA
            /\ UNCHANGED <<appointments, products, stockMovements, medicalRecords,
                           patientTreatments, extCalls>>
       /\ (cn.pc = "idle" /\ cn'.pc = "write") =>
            appointments[cn'.id].status # CANCELADA
      ]_vars

\* a second cancel answered 400 after a first one that succeeded: the
\* notes carry exactly one cancellation line
C11_Witness ==
    /\ resp.op = "cancel" /\ resp.code = 400 /\ resp.id = 1
    /\ ops = 2
    /\ Call("sendAppointmentCancelled", 1) \in extCalls
    /\ appointments[1].status = CANCELADA
    /\ appointments[1].notes = CancelledNotes({<<"n1">>}, {<<"r1">>})

\* the edges of the transition table, as pairs of stored statuses
TransitionTable ==
    { <<PROGRAMADA, CONFIRMADA>>, <<CONFIRMADA, EN_CURSO>>,
      <<CONFIRMADA, COMPLETADA>>, <<EN_CURSO, COMPLETADA>>,
      <<PROGRAMADA, CANCELADA>>, <<CONFIRMADA, CANCELADA>>, <<EN_CURSO, CANCELADA>>,
      <<PROGRAMADA, NO_ASISTIO>>, <<CONFIRMADA, NO_ASISTIO>> }

\* C12: every change of a stored status, whichever operation makes it, is
\* an edge of the transition table; in particular no status changes once it
\* is COMPLETADA, CANCELADA or NO_ASISTIO
C12_OnlyTableTransitions ==
    [][\A i \in ApptIds :
          appointments'[i].status # appointments[i].status
          => <<appointments[i].status, appointments'[i].status>> \in TransitionTable
      ]_vars

\* C14: every stored appointment has startTime < endTime, in every
\* reachable state
C14_StartBeforeEnd ==
    \A i \in ApptIds : appointments[i].startTime < appointments[i].endTime

\* the stored appointments, the calendar event id apart
WithoutEvent(rows) == [i \in DOMAIN rows |-> [rows[i] EXCEPT !.googleEventId = NoId]]

\* C13: when the calendar or the notification collaborator throws during
\* createAppointment, updateAppointment or cancelAppointment, the handler
\* still answers with its success code (201, 200, 200) and the rows written
\* before the call stay as written (createAppointment may still store the
\* calendar event id when only the notification threw)
C13_CollaboratorFailureNotFatal ==
    [][/\ \A c \in CreateProcs :
            (cr[c].pc = "sync" /\ cr'[c].pc = "idle" /\ resp'.thrown # {})
            => /\ resp'.code = 201 /\ resp'.id = cr[c].apptId
               /\ WithoutEvent(appointments') = WithoutEvent(appointments)
       /\ (up.pc = "sync" /\ up'.pc = "idle" /\ resp'.thrown # {})
            => /\ resp'.code = 200 /\ resp'.id = up.id
               /\ appointments' = appointments
       /\ (cn.pc = "sync" /\ cn'.pc = "idle" /\ resp'.thrown # {})
            => /\ resp'.code = 200 /\ resp'.id = cn.id
               /\ appointments' = appointments
      ]_vars

\* a cancel answered 200 although both the calendar and the notification
\* call threw; the appointment is stored as cancelled
C13_Witness ==
    /\ resp.op = "cancel" /\ resp.code = 200
    /\ resp.thrown = {"calendar", "notification"}
    /\ appointments[resp.id].status = CANCELADA

\* minutes since local midnight
TimeOfDay(t) == t % 1440

PolicyCallDone == call.fn = "validateWorkingHours" /\ call.done

\* C15: an interval that validateWorkingHours accepts starts at or after
\* 08:00, ends at or before 18:00, and starts and ends on the same calendar
\* day
C15_AcceptedWithinOfficeHours ==
    (PolicyCallDone /\ call.result.isValid) =>
        /\ TimeOfDay(call.startTime) >= 8 * 60
        /\ TimeOfDay(call.endTime) <= 18 * 60
        /\ call.startTime \div 1440 = call.endTime \div 1440

\* the rules in their fixed order, each with the message of its rejection
PolicyRules(startTime, endTime) ==
    << [broken |-> (startTime \div 1440) % 7 = 0, message |-> "domingo"],
       [broken |-> TimeOfDay(startTime) < 8 * 60, message |-> "despues de las 8:00"],
       [broken |-> TimeOfDay(endTime) > 18 * 60, message |-> "antes de las 18:00"],
       [broken |-> endTime - startTime < 15, message |-> "duracion minima"],
       [broken |-> endTime - startTime > 240, message |-> "duracion maxima"],
       [broken |-> (startTime % 60) % 15 # 0 \/ (endTime % 60) % 15 # 0,
        message |-> "intervalos de 15 minutos"] >>

\* C16: validateWorkingHours rejects every interval that starts on a
\* Sunday, lasts less than 15 or more than 240 minutes, or has a start or
\* end minute that is not a multiple of 15, and the message it returns is
\* that of the first broken rule in the order day of week, office-hours
\* start, office-hours end, minimum duration, maximum duration, alignment
C16_RejectsInFixedOrder ==
    PolicyCallDone =>
        LET rules == PolicyRules(call.startTime, call.endTime)
            broken == { k \in 1..Len(rules) : rules[k].broken }
        IN  /\ (rules[1].broken \/ rules[4].broken \/ rules[5].broken \/ rules[6].broken)
                  => ~call.result.isValid
            /\ call.result.isValid <=> broken = {}
            /\ broken # {} =>
                  \E k \in broken :
                      /\ \A m \in broken : k <= m
                      /\ call.result.message = rules[k].message

\* a 10-minute interval Monday 10:00-10:10, which breaks both the minimum
\* duration and the alignment rule, is rejected for its duration
C16_Witness ==
    /\ PolicyCallDone
    /\ call.startTime = 2040 /\ call.endTime = 2050
    /\ ~call.result.isValid
    /\ call.result.message = "duracion minima"

\* C17: every slot returned by getAvailability ends at or before 18:00 of
\* the queried day
C17_SlotsEndByClosing ==
    [][GetAvailabilityStep =>
          \A slot \in resp'.slots : slot[2] <= QueryDay(resp'.queryDate) + 18 * 60
      ]_vars

\* the candidate starts of the 30-minute grid within 08:00-18:00 of a day
GridStarts(day) == { day + 8 * 60 + 30 * k : k \in 0..19 }

\* C18: getAvailability returns every candidate on the 30-minute grid
\* within 08:00-18:00 of the queried day whose 60-minute interval (the
\* duration of every treatment of the model, and the default) ends by 18:00
\* and overlaps no non-cancelled appointment of the practitioner
C18_EveryFreeCandidateReturned ==
    [][GetAvailabilityStep =>
          \A start \in GridStarts(QueryDay(resp'.queryDate)) :
              (/\ start + 60 <= QueryDay(resp'.queryDate) + 18 * 60
               /\ Blocking(resp'.userId, start, start + 60) = {})
              => <<start, start + 60>> \in resp'.slots
      ]_vars

\* C19: an updateAppointment that changes the stored interval stores only
\* an interval that passes the working-hours policy and overlaps no other
\* non-cancelled appointment of the same practitioner, also when only
\* startTime or only endTime is sent
C19_RescheduleChecked ==
    [][(up.pc = "write" /\ up'.pc = "sync"
        /\ <<appointments'[up.id].startTime, appointments'[up.id].endTime>>
              # <<appointments[up.id].startTime, appointments[up.id].endTime>>)
       => /\ validateWorkingHours(appointments'[up.id].startTime,
                                  appointments'[up.id].endTime).isValid
          /\ Blocking(appointments'[up.id].userId, appointments'[up.id].startTime,
                      appointments'[up.id].endTime) \ {up.id} = {}
      ]_vars

\* C20: completeAppointment goes on to its transaction only for an
\* appointment whose status is CONFIRMADA or EN_CURSO
C20_CompleteOnlyConfirmedOrInProgress ==
    [][\A p \in CompleteProcs :
          (cp[p].pc = "idle" /\ cp'[p].pc # "idle")
          => appointments[cp'[p].id].status \in {CONFIRMADA, EN_CURSO}
      ]_vars

\* C21: cancelAppointment goes on to its write only with a reason that is
\* present and not empty, and the line it adds to the notes carries that
\* reason
C21_CancelNeedsReason ==
    [][/\ (cn.pc = "idle" /\ cn'.pc = "write") => Truthy(cn'.reason)
       /\ (cn.pc = "write" /\ cn'.pc = "sync") =>
             /\ Truthy(cn.reason)
             /\ appointments'[cn.id].notes = CancelledNotes(cn.notes, cn.reason)
      ]_vars

\* C22: every successful completeAppointment that finds the patient's
\* course of the treatment ACTIVO raises its completedSessions by exactly
\* one over the stored value, also when two completions run concurrently,
\* and marks it COMPLETADO exactly when the count reaches the session total
C22_EveryCompletionCounts ==
    [][\A p \in CompleteProcs :
          (CompleteSucceeds(p) /\ cp[p].tx.patientTreatment # NoId)
          => LET i == cp[p].tx.patientTreatment IN
             patientTreatments[i].status = "ACTIVO"
             => /\ patientTreatments'[i].completedSessions
                      = patientTreatments[i].completedSessions + 1
                /\ patientTreatments'[i].status = "COMPLETADO"
                      <=> patientTreatments'[i].completedSessions
                            >= patientTreatments'[i].sessions
      ]_vars

\* the write of the sweep
NoShowWriteStep == ns.pc = "write" /\ ns'.pc = "idle"

MarkedBy(i) == appointments'[i].status = NO_ASISTIO /\ appointments[i].status # NO_ASISTIO

\* C23: the sweep marks an appointment NO_ASISTIO only when the clock is
\* past its endTime plus the 30 minutes of grace
C23_NoShowAfterEndPlusGrace ==
    [][NoShowWriteStep =>
          \A i \in ApptIds : MarkedBy(i) => now > appointments[i].endTime + 30
      ]_vars

\* C24: the sweep sets NO_ASISTIO only on an appointment whose stored
\* status is PROGRAMADA or CONFIRMADA at the time of the write
C24_NoShowNeverOverwrites ==
    [][NoShowWriteStep =>
          \A i \in ApptIds :
              MarkedBy(i) => appointments[i].status \in {PROGRAMADA, CONFIRMADA}
      ]_vars

\* C25: the sweep touches no appointment that is NO_ASISTIO, COMPLETADA or
\* CANCELADA; once a sweep has run, a second one with nothing changed in
\* between finds no candidate and changes nothing; no run calls a
\* notification or the calendar
C25_SweepIdempotent ==
    [][/\ extCalls' = extCalls
       /\ NoShowWriteStep =>
             /\ \A i \in ApptIds :
                   appointments[i].status \in {NO_ASISTIO, COMPLETADA, CANCELADA}
                   => appointments'[i] = appointments[i]
             /\ ops >= 2 => appointments' = appointments
             /\ \A i \in ApptIds :
                   appointments'[i].status \notin {PROGRAMADA, CONFIRMADA}
                   \/ ~(appointments'[i].startTime < now - 30)
      ]_vars

\* two sweeps have run: the first marked the 10:00 appointment, the second
\* left it and the COMPLETADA one as they were
C25_Witness ==
    /\ ops = 2 /\ ns.pc = "idle"
    /\ appointments[1].status = NO_ASISTIO
    /\ appointments[2].status = COMPLETADA

\* the positions of the reminder log that hold a reminder of kind `kind`
\* for appointment i
RemindersOf(i, kind) ==
    { k \in 1 .. Len(reminders) : reminders[k].id = i /\ reminders[k].kind = kind }

\* C26: however often sendDailyReminders and send2HourReminders are run (by
\* the schedule, by a second firing or by runJobManually), every appointment
\* receives each kind of reminder (24h, 2h) at most once
C26_EachReminderOnce ==
    \A i \in ApptIds : \A kind \in {"24h", "2h"} :
        Cardinality(RemindersOf(i, kind)) <= 1

\* C29: with send2HourReminders fired at minutes 0 and 30 of every hour, an
\* appointment that is PROGRAMADA or CONFIRMADA when its start is reached
\* was sent a 2h reminder by a firing before its start, whichever quarter
\* of the hour it starts at
C29_EveryStartReminded ==
    \A i \in ApptIds :
        (/\ appointments[i].status \in {PROGRAMADA, CONFIRMADA}
         /\ now >= appointments[i].startTime)
        => \E k \in RemindersOf(i, "2h") : reminders[k].at < appointments[i].startTime

\* the calls a request for appointment id may make to the calendar and to
\* the notification service
CollaboratorCalls(apis, id) == { Call(api, id) : api \in apis }

\* C27: in createAppointment, updateAppointment and cancelAppointment the
\* calendar and notification calls are made only by the step that follows
\* the handler's own write of the appointment (the insert, the update, the
\* cancellation), which is committed by then, and concern that appointment;
\* a request answered 400, 403, 404 or 409 makes no such call
C27_CallsAfterCommit ==
    [][/\ \A c \in CreateProcs :
            (cr[c].pc # "sync" /\ cr'[c].pc = "sync")
            => /\ cr[c].pc = "insert"
               /\ cr'[c].apptId = Len(appointments) + 1
               /\ \E notes \in NotesInputs :
                     appointments' = Append(appointments, NewAppointment(cr[c].req, notes))
       /\ (up.pc # "sync" /\ up'.pc = "sync")
            => /\ up.pc = "write" /\ up'.id = up.id
               /\ appointments'[up.id] = ApplyUpdate(appointments[up.id], up.body)
       /\ (cn.pc # "sync" /\ cn'.pc = "sync")
            => /\ cn.pc = "write" /\ cn'.id = cn.id
               /\ appointments'[cn.id].status = CANCELADA
       /\ extCalls' # extCalls
            => /\ extCalls \subseteq extCalls'
               /\ \/ \E c \in CreateProcs :
                        /\ cr[c].pc = "sync" /\ cr'[c].pc = "idle"
                        /\ cr[c].apptId \in ApptIds
                        /\ extCalls' \ extCalls \subseteq
                             CollaboratorCalls({"createEvent", "sendAppointmentConfirmation"},
                                               cr[c].apptId)
                  \/ /\ up.pc = "sync" /\ up'.pc = "idle"
                     /\ extCalls' \ extCalls \subseteq
                          CollaboratorCalls({"updateEvent", "sendAppointmentConfirmed",
                                             "sendAppointmentCancelled",
                                             "sendAppointmentRescheduled"}, up.id)
                  \/ /\ cn.pc = "sync" /\ cn'.pc = "idle"
                     /\ extCalls' \ extCalls \subseteq
                          CollaboratorCalls({"cancelEvent", "sendAppointmentCancelled"}, cn.id)
       /\ resp'.code \in {400, 403, 404, 409} => extCalls' = extCalls
      ]_vars

\* a cancellation answered 200 after its calendar and notification calls,
\* neither of which threw, with the appointment stored as cancelled
C27_Witness ==
    /\ resp.op = "cancel" /\ resp.code = 200 /\ resp.thrown = {}
    /\ Call("cancelEvent", resp.id) \in extCalls
    /\ Call("sendAppointmentCancelled", resp.id) \in extCalls
    /\ appointments[resp.id].status = CANCELADA

\* C28: every slot returned by getAvailability is an interval that
\* validateWorkingHours accepts (not on a Sunday, within office hours, 15 to
\* 240 minutes long, on the quarter-hour grid), for every queried day and
\* treatment duration
C28_SlotsPassPolicy ==
    [][GetAvailabilityStep =>
          \A slot \in resp'.slots : validateWorkingHours(slot[1], slot[2]).isValid
      ]_vars

\* the sum of the quantities of the movements recorded for product prod
RECURSIVE MovementSum(_, _)
MovementSum(movements, prod) ==
    IF movements = << >> THEN 0
    ELSE (IF Head(movements).productId = prod THEN Head(movements).quantity ELSE 0)
         + MovementSum(Tail(movements), prod)

\* C30: after any interleaving of adjustStock, useInTreatment, reportExpiry,
\* receivePurchase and completeAppointment calls, successful or failed,
\* every product's currentStock is its initial stock plus the sum of the
\* quantities of the movements recorded for it
C30_StockMatchesMovements ==
    \A prod \in Products :
        products[prod] = InitialStock[prod] + MovementSum(stockMovements, prod)

\* two useInTreatment requests that both read a stock of 10 and both took 8:
\* the stock is negative and both movements are on record
C30_Witness ==
    /\ products["prodA"] < 0
    /\ Len(stockMovements) = 2
    /\ \A s \in StockProcs : sk[s].pc = "idle"
    /\ resp.op = "useInTreatment" /\ resp.code = 200

====
